---- MODULE Spec2Model ----
(***************************************************************************)
(* The two Anchor programs of the AI council system:                       *)
(*   council_selection  - one CouncilSession account (VRF commit, reveal,  *)
(*                        agent selection, verification)                   *)
(*   voting             - one Debate account (ballots, weighted tally,     *)
(*                        close, results)                                  *)
(* Every instruction is one atomic step: Anchor first validates the        *)
(* instruction's Accounts struct (account exists, has_one = authority),    *)
(* then runs the handler; a handler that returns Err leaves the account    *)
(* as it was (require! comes before every write in these handlers).        *)
(* The two programs share no account, so a behaviour follows one of them   *)
(* (program_id).                                                           *)
(***************************************************************************)
EXTENDS Integers, Sequences, FiniteSets, TLC

VARIABLES
    program_id,   \* the program the instructions of this behaviour address
    accounts,     \* the program-derived accounts that have been created
    session,      \* data of the CouncilSession account
    debate,       \* data of the Debate account
    now,          \* the host clock, Clock::get()?.unix_timestamp
    last_ix,      \* name of the last instruction processed
    last_err,     \* its result: "Ok" or the error code it failed with
    last_ret      \* its return value: <<>> or <<value>>

vars == <<program_id, accounts, session, debate, now, last_ix, last_err, last_ret>>

-----------------------------------------------------------------------------
\* Bounds of the model
MaxClock == 2
MaxListLen == 2

\* Inputs the instructions draw from
Principals == {"alice", "bob"}
AgentIds == {"a", "b"}
RequiredAgentsInputs == {0, 2, 11}
VrfSeeds == {0, 42}
RandomNumbers == {7}
VrfProofs == {<<>>, <<1>>}
ConfidenceInputs == {100, 101}
AgentLists == UNION {[1..n -> AgentIds] : n \in 0..MaxListLen}

-----------------------------------------------------------------------------
\* council_selection: account data

SessionStatus == {"Initialized", "VRFRequested", "VRFFulfilled", "AgentsSelected", "Completed"}

\* A freshly allocated account before the handler has written anything: all zero.
ZeroSession ==
    [session_id |-> "", authority |-> "", required_agents |-> 0,
     diversity_required |-> FALSE, selected_agents |-> <<>>, vrf_seed |-> 0,
     vrf_fulfilled |-> FALSE, random_number |-> 0, vrf_proof |-> <<>>,
     timestamp |-> 0, selection_timestamp |-> 0, status |-> "Initialized"]

\* The outcome of an instruction that failed: nothing is written back.
Fail(ix, err) ==
    /\ last_ix' = ix
    /\ last_err' = err
    /\ last_ret' = <<>>
    /\ UNCHANGED <<program_id, accounts, session, debate, now>>

\* The bookkeeping of an instruction that succeeded.
Done(ix, ret) ==
    /\ last_ix' = ix
    /\ last_err' = "Ok"
    /\ last_ret' = ret
    /\ UNCHANGED <<program_id, now>>

\* Borsh encoding sizes.  A String is a u32 length and its bytes; a Vec is a
\* u32 length and its elements.
BorshString(s) == 4 + Len(s)

RECURSIVE BorshStrings(_)
BorshStrings(seq) ==
    IF seq = <<>> THEN 0 ELSE BorshString(Head(seq)) + BorshStrings(Tail(seq))

\* impl CouncilSession: the bytes allocated for the account data
\* (space = 8 + INIT_SPACE, the 8 being the discriminator).
SessionInitSpace == 32 + 32 + 1 + 1 + (4 + 320) + 8 + 1 + 8 + (4 + 256) + 8 + 8 + 1

\* The bytes struct CouncilSession serializes to, field by field.
SessionSize(s) ==
    BorshString(s.session_id) + 32 + 1 + 1 + (4 + BorshStrings(s.selected_agents))
    + 8 + 1 + 8 + (4 + Len(s.vrf_proof)) + 8 + 8 + 1

\* Account<CouncilSession> declared mut: when the handler has returned Ok the
\* data is serialized back into the account, which fails when it no longer
\* fits, and then the instruction as a whole fails.
WriteSession(ix, new) ==
    IF SessionSize(new) <= SessionInitSpace
    THEN /\ session' = new
         /\ UNCHANGED <<accounts, debate>>
         /\ Done(ix, <<>>)
    ELSE Fail(ix, "AccountDidNotSerialize")

\* Accounts structs: what Anchor checks before the handler runs.
\* InitializeSession declared init_if_needed: an existing account is accepted
InitializeSession_IfNeeded(caller) == "Ok"

InitializeSession(caller) ==
    IF "session" \in accounts THEN "AccountAlreadyInUse" ELSE "Ok"

RequestVRF(caller) ==
    IF "session" \notin accounts THEN "AccountNotInitialized"
    ELSE IF session.authority # caller THEN "ConstraintHasOne"
    ELSE "Ok"

FulfillVRF(caller) ==
    IF "session" \notin accounts THEN "AccountNotInitialized" ELSE "Ok"

SelectAgents(caller) ==
    IF "session" \notin accounts THEN "AccountNotInitialized"
    ELSE IF session.authority # caller THEN "ConstraintHasOne"
    ELSE "Ok"

VerifySelection ==
    IF "session" \notin accounts THEN "AccountNotInitialized" ELSE "Ok"

\* council_selection: instruction handlers

initialize_session(caller, session_id, required_agents, diversity_required) ==
    /\ program_id = "council_selection"
    /\ IF InitializeSession(caller) # "Ok"
       THEN Fail("initialize_session", InitializeSession(caller))
       ELSE LET new == [ZeroSession EXCEPT
                           !.session_id = session_id,
                           !.authority = caller,
                           !.required_agents = required_agents,
                           !.diversity_required = diversity_required,
                           !.selected_agents = <<>>,
                           !.vrf_seed = 0,
                           !.vrf_fulfilled = FALSE,
                           !.timestamp = now,
                           !.status = "Initialized"]
            IN  IF SessionSize(new) <= SessionInitSpace
                THEN /\ session' = new
                     /\ accounts' = accounts \cup {"session"}
                     /\ UNCHANGED debate
                     /\ Done("initialize_session", <<>>)
                ELSE Fail("initialize_session", "AccountDidNotSerialize")

\* request_vrf with the status guard left out
request_vrf_NoStatusGuard(caller, vrf_seed) ==
    /\ program_id = "council_selection"
    /\ IF RequestVRF(caller) # "Ok"
       THEN Fail("request_vrf", RequestVRF(caller))
       ELSE WriteSession("request_vrf",
                    [session EXCEPT
                       !.vrf_seed = vrf_seed,
                       !.status = "VRFRequested"])

request_vrf(caller, vrf_seed) ==
    /\ program_id = "council_selection"
    /\ IF RequestVRF(caller) # "Ok"
       THEN Fail("request_vrf", RequestVRF(caller))
       ELSE IF session.status # "Initialized"
       THEN Fail("request_vrf", "InvalidSessionStatus")
       ELSE WriteSession("request_vrf",
                    [session EXCEPT
                   !.vrf_seed = vrf_seed,
                   !.status = "VRFRequested"])

\* fulfill_vrf with the status guard left out
fulfill_vrf_NoStatusGuard(caller, random_number, vrf_proof) ==
    /\ program_id = "council_selection"
    /\ IF FulfillVRF(caller) # "Ok"
       THEN Fail("fulfill_vrf", FulfillVRF(caller))
       ELSE IF ~(Len(vrf_proof) > 0)
       THEN Fail("fulfill_vrf", "InvalidVRFProof")
       ELSE WriteSession("fulfill_vrf",
                    [session EXCEPT
                   !.vrf_fulfilled = TRUE,
                   !.random_number = random_number,
                   !.vrf_proof = vrf_proof,
                   !.status = "VRFFulfilled"])

fulfill_vrf(caller, random_number, vrf_proof) ==
    /\ program_id = "council_selection"
    /\ IF FulfillVRF(caller) # "Ok"
       THEN Fail("fulfill_vrf", FulfillVRF(caller))
       ELSE IF session.status # "VRFRequested"
       THEN Fail("fulfill_vrf", "InvalidSessionStatus")
       ELSE IF ~(Len(vrf_proof) > 0)
       THEN Fail("fulfill_vrf", "InvalidVRFProof")
       ELSE WriteSession("fulfill_vrf",
                    [session EXCEPT
                   !.vrf_fulfilled = TRUE,
                   !.random_number = random_number,
                   !.vrf_proof = vrf_proof,
                   !.status = "VRFFulfilled"])

\* select_agents with the agent-count guard left out
select_agents_NoCountGuard(caller, agent_ids) ==
    /\ program_id = "council_selection"
    /\ IF SelectAgents(caller) # "Ok"
       THEN Fail("select_agents", SelectAgents(caller))
       ELSE IF session.status # "VRFFulfilled"
       THEN Fail("select_agents", "InvalidSessionStatus")
       ELSE WriteSession("select_agents",
                    [session EXCEPT
                   !.selected_agents = agent_ids,
                   !.status = "AgentsSelected",
                   !.selection_timestamp = now])

\* select_agents that does not record the time of the selection
select_agents_NoSelectionTimestamp(caller, agent_ids) ==
    /\ program_id = "council_selection"
    /\ IF SelectAgents(caller) # "Ok"
       THEN Fail("select_agents", SelectAgents(caller))
       ELSE IF session.status # "VRFFulfilled"
       THEN Fail("select_agents", "InvalidSessionStatus")
       ELSE IF Len(agent_ids) # session.required_agents
       THEN Fail("select_agents", "InvalidAgentCount")
       ELSE WriteSession("select_agents",
                    [session EXCEPT
                       !.selected_agents = agent_ids,
                       !.status = "AgentsSelected"])

select_agents(caller, agent_ids) ==
    /\ program_id = "council_selection"
    /\ IF SelectAgents(caller) # "Ok"
       THEN Fail("select_agents", SelectAgents(caller))
       ELSE IF session.status # "VRFFulfilled"
       THEN Fail("select_agents", "InvalidSessionStatus")
       ELSE IF Len(agent_ids) # session.required_agents
       THEN Fail("select_agents", "InvalidAgentCount")
       ELSE WriteSession("select_agents",
                    [session EXCEPT
                   !.selected_agents = agent_ids,
                   !.status = "AgentsSelected",
                   !.selection_timestamp = now])

\* verify_selection that marks the verified session Completed
verify_selection_MarksCompleted ==
    /\ program_id = "council_selection"
    /\ IF VerifySelection # "Ok"
       THEN Fail("verify_selection", VerifySelection)
       ELSE IF session.status # "AgentsSelected"
       THEN Fail("verify_selection", "InvalidSessionStatus")
       ELSE /\ session' = [session EXCEPT !.status = "Completed"]
            /\ UNCHANGED <<accounts, debate>>
            /\ Done("verify_selection",
                    << /\ session.vrf_fulfilled
                       /\ Len(session.selected_agents) = session.required_agents
                       /\ Len(session.vrf_proof) > 0 >>)

verify_selection ==
    /\ program_id = "council_selection"
    /\ IF VerifySelection # "Ok"
       THEN Fail("verify_selection", VerifySelection)
       ELSE IF session.status # "AgentsSelected"
       THEN Fail("verify_selection", "InvalidSessionStatus")
       ELSE /\ UNCHANGED <<accounts, session, debate>>
            /\ Done("verify_selection",
                    << /\ session.vrf_fulfilled
                       /\ Len(session.selected_agents) = session.required_agents
                       /\ Len(session.vrf_proof) > 0 >>)

-----------------------------------------------------------------------------
\* f64 arithmetic of tally_votes.  Every value the tally computes is a
\* non-negative multiple of 2^-60 below 2^12, so an f64 is held exactly as the
\* integer value * 2^60, written in three 24-bit limbs <<hi, mid, lo>>.
\* Each operation computes the exact result and rounds it to a 53-bit
\* significand, ties to even, as IEEE 754 binary64 does.

F64Significand == 53
Limb == 2^24

RECURSIVE BitLen(_)
BitLen(n) == IF n = 0 THEN 0 ELSE 1 + BitLen(n \div 2)

F64BitLen(x) ==
    IF x[1] > 0 THEN 48 + BitLen(x[1])
    ELSE IF x[2] > 0 THEN 24 + BitLen(x[2])
    ELSE BitLen(x[3])

\* Carry propagation from the low limb upward.
F64Norm(hi, mid, lo) ==
    LET m == mid + (lo \div Limb)
    IN  <<hi + (m \div Limb), m % Limb, lo % Limb>>

\* Round to nearest, ties to even; sticky says the exact value has non-zero
\* bits below the low limb.
F64Round(x, sticky) ==
    LET s == F64BitLen(x) - F64Significand
    IN  IF s <= 0 THEN x
        ELSE LET m == 2^s
                 r == x[3] % m
                 half == m \div 2
                 odd == (x[3] \div m) % 2 = 1
                 up == r > half \/ (r = half /\ (sticky \/ odd))
             IN  F64Norm(x[1], x[2], x[3] - r + (IF up THEN m ELSE 0))

F64Zero == <<0, 0, 0>>

\* confidence as f64 / 100.0
F64Div100(k) ==
    LET hi == k * 2^12
        r1 == hi % 100
        c2 == r1 * Limb
        r2 == c2 % 100
        c3 == r2 * Limb
    IN  F64Round(<<hi \div 100, c2 \div 100, c3 \div 100>>, c3 % 100 # 0)

\* x + y
F64Add(x, y) == F64Round(F64Norm(x[1] + y[1], x[2] + y[2], x[3] + y[3]), FALSE)

\* x * 100.0
F64Mul100(x) == F64Round(F64Norm(x[1] * 100, x[2] * 100, x[3] * 100), FALSE)

\* x > y
F64Gt(x, y) ==
    \/ x[1] > y[1]
    \/ x[1] = y[1] /\ x[2] > y[2]
    \/ x[1] = y[1] /\ x[2] = y[2] /\ x[3] > y[3]

\* x as u16: truncation toward zero, saturating at u16::MAX
F64AsU16(x) ==
    LET i == x[1] \div 2^12
    IN  IF i > 65535 THEN 65535 ELSE i

-----------------------------------------------------------------------------
\* voting: account data

VoteOption == {"Support", "Oppose", "Neutral", "Abstain"}
DebateStatus == {"Active", "Completed", "Closed"}

\* Option<VoteOption>: None is <<>>, Some(o) is <<o>>.
\* A freshly allocated account before the handler has written anything: all zero.
ZeroDebate ==
    [debate_id |-> "", topic |-> "", authority |-> "", max_rounds |-> 0,
     current_round |-> 0, votes |-> <<>>, timestamp |-> 0,
     completion_timestamp |-> 0, status |-> "Active", outcome |-> <<>>,
     support_score |-> 0, oppose_score |-> 0, neutral_score |-> 0,
     votes_tallied |-> FALSE]

\* impl Debate: the bytes allocated for the account data
\* (space = 8 + INIT_SPACE, the 8 being the discriminator).
DebateInitSpace == 32 + 128 + 32 + 1 + 1 + (4 + 4000) + 8 + 8 + 1 + 2 + 2 + 2 + 2 + 1

\* The bytes struct Vote serializes to.
VoteSize(vote) == BorshString(vote.agent_id) + 1 + 1 + BorshString(vote.reasoning) + 8

RECURSIVE VotesSize(_)
VotesSize(votes) ==
    IF votes = <<>> THEN 0 ELSE VoteSize(Head(votes)) + VotesSize(Tail(votes))

\* The bytes struct Debate serializes to, field by field (an Option is one
\* byte and, when Some, its value).
DebateSize(d) ==
    BorshString(d.debate_id) + BorshString(d.topic) + 32 + 1 + 1
    + (4 + VotesSize(d.votes)) + 8 + 8 + 1 + (1 + Len(d.outcome)) + 2 + 2 + 2 + 1

\* Account<Debate> declared mut: serialized back when the handler returned Ok.
WriteDebate(ix, new) ==
    IF DebateSize(new) <= DebateInitSpace
    THEN /\ debate' = new
         /\ UNCHANGED <<accounts, session>>
         /\ Done(ix, <<>>)
    ELSE Fail(ix, "AccountDidNotSerialize")

\* Accounts structs: what Anchor checks before the handler runs.
InitializeDebate(caller) ==
    IF "debate" \in accounts THEN "AccountAlreadyInUse" ELSE "Ok"

CastVote(caller) ==
    IF "debate" \notin accounts THEN "AccountNotInitialized" ELSE "Ok"

\* TallyVotes without has_one = authority (as FulfillVRF is declared)
TallyVotes_NoHasOne(caller) ==
    IF "debate" \notin accounts THEN "AccountNotInitialized" ELSE "Ok"

TallyVotes(caller) ==
    IF "debate" \notin accounts THEN "AccountNotInitialized"
    ELSE IF debate.authority # caller THEN "ConstraintHasOne"
    ELSE "Ok"

CloseDebate(caller) ==
    IF "debate" \notin accounts THEN "AccountNotInitialized"
    ELSE IF debate.authority # caller THEN "ConstraintHasOne"
    ELSE "Ok"

GetResults ==
    IF "debate" \notin accounts THEN "AccountNotInitialized" ELSE "Ok"

\* The loop of tally_votes for one option: the f64 sum, in ballot order, of
\* confidence / 100.0 over the ballots cast for that option.
RECURSIVE WeightedScore(_, _, _)
WeightedScore(votes, option, acc) ==
    IF votes = <<>> THEN acc
    ELSE LET vote == Head(votes)
             weight == F64Div100(vote.confidence)
         IN  WeightedScore(Tail(votes), option,
                           IF vote.vote_option = option
                           THEN F64Add(acc, weight) ELSE acc)

\* "Determine winner"
Winner(support_score, oppose_score, neutral_score) ==
    IF F64Gt(support_score, oppose_score) /\ F64Gt(support_score, neutral_score)
    THEN "Support"
    ELSE IF F64Gt(oppose_score, support_score) /\ F64Gt(oppose_score, neutral_score)
    THEN "Oppose"
    ELSE "Neutral"

\* (score * 100.0) as u16
StoredScore(score) == F64AsU16(F64Mul100(score))

\* voting: instruction handlers

initialize_debate(caller, debate_id, topic, max_rounds) ==
    /\ program_id = "voting"
    /\ IF InitializeDebate(caller) # "Ok"
       THEN Fail("initialize_debate", InitializeDebate(caller))
       ELSE LET new == [ZeroDebate EXCEPT
                           !.debate_id = debate_id,
                           !.topic = topic,
                           !.authority = caller,
                           !.max_rounds = max_rounds,
                           !.current_round = 0,
                           !.votes = <<>>,
                           !.timestamp = now,
                           !.status = "Active",
                           !.votes_tallied = FALSE]
            IN  IF DebateSize(new) <= DebateInitSpace
                THEN /\ debate' = new
                     /\ accounts' = accounts \cup {"debate"}
                     /\ UNCHANGED session
                     /\ Done("initialize_debate", <<>>)
                ELSE Fail("initialize_debate", "AccountDidNotSerialize")

\* cast_vote with the "already voted" lookup left out
cast_vote_NoDuplicateCheck(caller, agent_id, vote_option, confidence, reasoning) ==
    /\ program_id = "voting"
    /\ IF CastVote(caller) # "Ok"
       THEN Fail("cast_vote", CastVote(caller))
       ELSE IF debate.status # "Active"
       THEN Fail("cast_vote", "DebateNotActive")
       ELSE IF ~(confidence <= 100)
       THEN Fail("cast_vote", "InvalidConfidence")
       ELSE WriteDebate("cast_vote",
                    [debate EXCEPT
                   !.votes = Append(@, [agent_id |-> agent_id,
                                        vote_option |-> vote_option,
                                        confidence |-> confidence,
                                        reasoning |-> reasoning,
                                        timestamp |-> now])])

\* cast_vote with the Active guard left out
cast_vote_NoActiveGuard(caller, agent_id, vote_option, confidence, reasoning) ==
    /\ program_id = "voting"
    /\ IF CastVote(caller) # "Ok"
       THEN Fail("cast_vote", CastVote(caller))
       ELSE IF ~(confidence <= 100)
       THEN Fail("cast_vote", "InvalidConfidence")
       ELSE IF \E i \in 1..Len(debate.votes) : debate.votes[i].agent_id = agent_id
       THEN Fail("cast_vote", "AlreadyVoted")
       ELSE WriteDebate("cast_vote",
                    [debate EXCEPT
                   !.votes = Append(@, [agent_id |-> agent_id,
                                        vote_option |-> vote_option,
                                        confidence |-> confidence,
                                        reasoning |-> reasoning,
                                        timestamp |-> now])])

cast_vote(caller, agent_id, vote_option, confidence, reasoning) ==
    /\ program_id = "voting"
    /\ IF CastVote(caller) # "Ok"
       THEN Fail("cast_vote", CastVote(caller))
       ELSE IF debate.status # "Active"
       THEN Fail("cast_vote", "DebateNotActive")
       ELSE IF ~(confidence <= 100)
       THEN Fail("cast_vote", "InvalidConfidence")
       ELSE IF \E i \in 1..Len(debate.votes) : debate.votes[i].agent_id = agent_id
       THEN Fail("cast_vote", "AlreadyVoted")
       ELSE WriteDebate("cast_vote",
                    [debate EXCEPT
                   !.votes = Append(@, [agent_id |-> agent_id,
                                        vote_option |-> vote_option,
                                        confidence |-> confidence,
                                        reasoning |-> reasoning,
                                        timestamp |-> now])])

\* tally_votes with the "no votes" guard left out
tally_votes_NoVotesGuard(caller) ==
    /\ program_id = "voting"
    /\ IF TallyVotes(caller) # "Ok"
       THEN Fail("tally_votes", TallyVotes(caller))
       ELSE IF debate.status # "Active"
       THEN Fail("tally_votes", "DebateNotActive")
       ELSE LET support_score == WeightedScore(debate.votes, "Support", F64Zero)
                oppose_score == WeightedScore(debate.votes, "Oppose", F64Zero)
                neutral_score == WeightedScore(debate.votes, "Neutral", F64Zero)
            IN  WriteDebate("tally_votes",
                    [debate EXCEPT
                       !.outcome = <<Winner(support_score, oppose_score, neutral_score)>>,
                       !.support_score = StoredScore(support_score),
                       !.oppose_score = StoredScore(oppose_score),
                       !.neutral_score = StoredScore(neutral_score),
                       !.votes_tallied = TRUE,
                       !.status = "Completed",
                       !.completion_timestamp = now])

tally_votes(caller) ==
    /\ program_id = "voting"
    /\ IF TallyVotes(caller) # "Ok"
       THEN Fail("tally_votes", TallyVotes(caller))
       ELSE IF debate.status # "Active"
       THEN Fail("tally_votes", "DebateNotActive")
       ELSE IF ~(Len(debate.votes) > 0)
       THEN Fail("tally_votes", "NoVotes")
       ELSE LET support_score == WeightedScore(debate.votes, "Support", F64Zero)
                oppose_score == WeightedScore(debate.votes, "Oppose", F64Zero)
                neutral_score == WeightedScore(debate.votes, "Neutral", F64Zero)
            IN  WriteDebate("tally_votes",
                    [debate EXCEPT
                       !.outcome = <<Winner(support_score, oppose_score, neutral_score)>>,
                       !.support_score = StoredScore(support_score),
                       !.oppose_score = StoredScore(oppose_score),
                       !.neutral_score = StoredScore(neutral_score),
                       !.votes_tallied = TRUE,
                       !.status = "Completed",
                       !.completion_timestamp = now])

\* close_debate that also discards the ballots
close_debate_DiscardBallots(caller) ==
    /\ program_id = "voting"
    /\ IF CloseDebate(caller) # "Ok"
       THEN Fail("close_debate", CloseDebate(caller))
       ELSE WriteDebate("close_debate",
                    [debate EXCEPT !.status = "Closed", !.votes = <<>>])

close_debate(caller) ==
    /\ program_id = "voting"
    /\ IF CloseDebate(caller) # "Ok"
       THEN Fail("close_debate", CloseDebate(caller))
       ELSE WriteDebate("close_debate",
                    [debate EXCEPT !.status = "Closed"])

\* get_results with the votes_tallied guard left out
get_results_NoTalliedGuard ==
    /\ program_id = "voting"
    /\ IF GetResults # "Ok"
       THEN Fail("get_results", GetResults)
       ELSE IF debate.outcome = <<>>
       THEN Fail("get_results", "Panic")
       ELSE /\ UNCHANGED <<accounts, session, debate>>
            /\ Done("get_results",
                    <<[debate_id |-> debate.debate_id,
                       outcome |-> debate.outcome[1],
                       support_score |-> debate.support_score,
                       oppose_score |-> debate.oppose_score,
                       neutral_score |-> debate.neutral_score,
                       total_votes |-> Len(debate.votes) % 65536]>>)

get_results ==
    /\ program_id = "voting"
    /\ IF GetResults # "Ok"
       THEN Fail("get_results", GetResults)
       ELSE IF ~debate.votes_tallied
       THEN Fail("get_results", "VotesNotTallied")
       ELSE IF debate.outcome = <<>>
       THEN Fail("get_results", "Panic")
       ELSE /\ UNCHANGED <<accounts, session, debate>>
            /\ Done("get_results",
                    <<[debate_id |-> debate.debate_id,
                       outcome |-> debate.outcome[1],
                       support_score |-> debate.support_score,
                       oppose_score |-> debate.oppose_score,
                       neutral_score |-> debate.neutral_score,
                       total_votes |-> Len(debate.votes) % 65536]>>)

-----------------------------------------------------------------------------
\* The host clock only moves forward.
Tick ==
    /\ now < MaxClock
    /\ now' = now + 1
    /\ UNCHANGED <<program_id, accounts, session, debate, last_ix, last_err, last_ret>>

\* Before any instruction: the programs are deployed, no account exists.
Init ==
    /\ program_id \in {"council_selection", "voting"}
    /\ accounts = {}
    /\ session = ZeroSession
    /\ debate = ZeroDebate
    /\ now = 1
    /\ last_ix = "none"
    /\ last_err = "Ok"
    /\ last_ret = <<>>

Next ==
    \/ \E caller \in Principals, n \in RequiredAgentsInputs, d \in BOOLEAN :
          initialize_session(caller, "s1", n, d)
    \/ \E caller \in Principals, seed \in VrfSeeds : request_vrf(caller, seed)
    \/ \E caller \in Principals, r \in RandomNumbers, p \in VrfProofs :
          fulfill_vrf(caller, r, p)
    \/ \E caller \in Principals, ids \in AgentLists : select_agents(caller, ids)
    \/ verify_selection
    \/ \E caller \in Principals : initialize_debate(caller, "d1", "topic", 1)
    \/ \E caller \in Principals, a \in AgentIds, o \in VoteOption, c \in ConfidenceInputs :
          cast_vote(caller, a, o, c, "because")
    \/ \E caller \in Principals : tally_votes(caller)
    \/ \E caller \in Principals : close_debate(caller)
    \/ get_results
    \/ Tick

Spec == Init /\ [][Next]_vars

\* The voting program alone, with three agents and confidences 1, 28 and 29
\* (0.01 + 0.28 and 0.29 are different f64 values).
TallyAgentIds == {"a", "b", "c"}
TallyConfidences == {1, 28, 29}

InitTally == Init /\ program_id = "voting"

NextTally ==
    \/ initialize_debate("alice", "d1", "topic", 1)
    \/ \E a \in TallyAgentIds, o \in VoteOption, c \in TallyConfidences :
          cast_vote("bob", a, o, c, "because")
    \/ tally_votes("alice")
    \/ get_results

SpecTally == InitTally /\ [][NextTally]_vars

\* The voting program alone, filling one debate: ballots of the largest size
\* the account layout provides for (agent_id of 32 bytes, reasoning of 128
\* bytes), cast by fresh agents in a fixed order since cast_vote compares
\* agent ids only for equality.
CapacityAgentIds ==
    <<"agent-01-xxxxxxxxxxxxxxxxxxxxxxx", "agent-02-xxxxxxxxxxxxxxxxxxxxxxx",
      "agent-03-xxxxxxxxxxxxxxxxxxxxxxx", "agent-04-xxxxxxxxxxxxxxxxxxxxxxx",
      "agent-05-xxxxxxxxxxxxxxxxxxxxxxx", "agent-06-xxxxxxxxxxxxxxxxxxxxxxx",
      "agent-07-xxxxxxxxxxxxxxxxxxxxxxx", "agent-08-xxxxxxxxxxxxxxxxxxxxxxx",
      "agent-09-xxxxxxxxxxxxxxxxxxxxxxx", "agent-10-xxxxxxxxxxxxxxxxxxxxxxx",
      "agent-11-xxxxxxxxxxxxxxxxxxxxxxx", "agent-12-xxxxxxxxxxxxxxxxxxxxxxx",
      "agent-13-xxxxxxxxxxxxxxxxxxxxxxx", "agent-14-xxxxxxxxxxxxxxxxxxxxxxx",
      "agent-15-xxxxxxxxxxxxxxxxxxxxxxx", "agent-16-xxxxxxxxxxxxxxxxxxxxxxx",
      "agent-17-xxxxxxxxxxxxxxxxxxxxxxx", "agent-18-xxxxxxxxxxxxxxxxxxxxxxx",
      "agent-19-xxxxxxxxxxxxxxxxxxxxxxx", "agent-20-xxxxxxxxxxxxxxxxxxxxxxx",
      "agent-21-xxxxxxxxxxxxxxxxxxxxxxx", "agent-22-xxxxxxxxxxxxxxxxxxxxxxx",
      "agent-23-xxxxxxxxxxxxxxxxxxxxxxx", "agent-24-xxxxxxxxxxxxxxxxxxxxxxx">>
CapacityReasoning ==
    "rrrrrrrrrrrrrrrrrrrrrrrrrrrrrrrrrrrrrrrrrrrrrrrrrrrrrrrrrrrrrrrrrrrrrrrrrrrrrrrrrrrrrrrrrrrrrrrrrrrrrrrrrrrrrrrrrrrrrrrrrrrrrrrr"

InitCapacity == Init /\ program_id = "voting"

NextCapacity ==
    \/ initialize_debate("alice", "d1", "topic", 1)
    \/ \E i \in 1..Len(CapacityAgentIds), c \in ConfidenceInputs :
          /\ i \in {1, Len(debate.votes) + 1}
          /\ cast_vote("bob", CapacityAgentIds[i], "Support", c, CapacityReasoning)
    \/ close_debate("alice")
    \/ get_results

SpecCapacity == InitCapacity /\ [][NextCapacity]_vars

-----------------------------------------------------------------------------
\* Properties

SessionExists == "session" \in accounts
DebateExists == "debate" \in accounts

Distinct(seq) == \A i, j \in 1..Len(seq) : i # j => seq[i] # seq[j]

\* C1: the session status changes only along Initialized -> VRFRequested
\* (request_vrf) -> VRFFulfilled (fulfill_vrf) -> AgentsSelected
\* (select_agents) -> Completed, one edge per step, whoever calls with
\* whatever arguments; and a request_vrf, fulfill_vrf, select_agents or
\* verify_selection handler invoked (the call passed its Accounts struct) in a
\* status other than its guard status fails with InvalidSessionStatus and
\* leaves the session as it was.
C1_StatusFollowsGraph ==
    [][ /\ session'.status # session.status =>
             \/ /\ session.status = "Initialized"
                /\ session'.status = "VRFRequested"
                /\ last_ix' = "request_vrf"
             \/ /\ session.status = "VRFRequested"
                /\ session'.status = "VRFFulfilled"
                /\ last_ix' = "fulfill_vrf"
             \/ /\ session.status = "VRFFulfilled"
                /\ session'.status = "AgentsSelected"
                /\ last_ix' = "select_agents"
             \/ /\ session.status = "AgentsSelected"
                /\ session'.status = "Completed"
        /\ \A caller \in Principals :
             /\ \A seed \in VrfSeeds :
                  ( /\ request_vrf(caller, seed)
                    /\ RequestVRF(caller) = "Ok"
                    /\ session.status # "Initialized" )
                  => (last_err' = "InvalidSessionStatus" /\ session' = session)
             /\ \A r \in RandomNumbers, p \in VrfProofs :
                  ( /\ fulfill_vrf(caller, r, p)
                    /\ FulfillVRF(caller) = "Ok"
                    /\ session.status # "VRFRequested" )
                  => (last_err' = "InvalidSessionStatus" /\ session' = session)
             /\ \A ids \in AgentLists :
                  ( /\ select_agents(caller, ids)
                    /\ SelectAgents(caller) = "Ok"
                    /\ session.status # "VRFFulfilled" )
                  => (last_err' = "InvalidSessionStatus" /\ session' = session)
        /\ ( /\ verify_selection
             /\ VerifySelection = "Ok"
             /\ session.status # "AgentsSelected" )
           => (last_err' = "InvalidSessionStatus" /\ session' = session)
      ]_vars

\* A session that went all the way to AgentsSelected and then refused a
\* second request_vrf.
C1_Witness ==
    /\ session.status = "AgentsSelected"
    /\ last_ix = "request_vrf"
    /\ last_err = "InvalidSessionStatus"

\* C2: request_vrf, select_agents, tally_votes and close_debate by a caller
\* other than the record's stored authority fail and leave every field of the
\* record unchanged, whatever state the record is in.
C2_AuthorityOnly ==
    [][ \A caller \in Principals :
          /\ ( /\ SessionExists
               /\ caller # session.authority
               /\ \/ \E seed \in VrfSeeds : request_vrf(caller, seed)
                  \/ \E ids \in AgentLists : select_agents(caller, ids) )
             => (last_err' # "Ok" /\ session' = session)
          /\ ( /\ DebateExists
               /\ caller # debate.authority
               /\ (tally_votes(caller) \/ close_debate(caller)) )
             => (last_err' # "Ok" /\ debate' = debate)
      ]_vars

\* A tally that would have succeeded for the authority, refused to another caller.
C2_Witness ==
    /\ last_ix = "tally_votes"
    /\ last_err = "ConstraintHasOne"
    /\ debate.status = "Active"
    /\ Len(debate.votes) > 0

C4_AgentCount ==
    /\ [](( /\ SessionExists
            /\ session.status \in {"AgentsSelected", "Completed"} )
          => Len(session.selected_agents) = session.required_agents)
    /\ [][ \A caller \in Principals, ids \in AgentLists :
             ( /\ select_agents(caller, ids)
               /\ SelectAgents(caller) = "Ok"
               /\ session.status = "VRFFulfilled"
               /\ Len(ids) # session.required_agents )
             => /\ last_err' = "InvalidAgentCount"
                /\ session' = session
                /\ session'.status = "VRFFulfilled"
                /\ session'.selected_agents = <<>>
         ]_vars

\* A session that requires two agents and holds two after select_agents.
C4_Witness ==
    /\ session.status = "AgentsSelected"
    /\ last_ix = "select_agents"
    /\ last_err = "Ok"
    /\ session.required_agents = 2
    /\ Len(session.selected_agents) = 2

\* The tally in integers: the sum of confidence over the ballots for an option.
RECURSIVE ConfidenceSum(_, _)
ConfidenceSum(votes, option) ==
    IF votes = <<>> THEN 0
    ELSE (IF Head(votes).vote_option = option THEN Head(votes).confidence ELSE 0)
         + ConfidenceSum(Tail(votes), option)

Capped(n) == IF n > 65535 THEN 65535 ELSE n

\* The option whose sum is strictly greater than both others, else Neutral.
StrictlyGreatest(support, oppose, neutral) ==
    IF support > oppose /\ support > neutral THEN "Support"
    ELSE IF oppose > support /\ oppose > neutral THEN "Oppose"
    ELSE "Neutral"

\* C5: for every tallied debate the stored support_score, oppose_score and
\* neutral_score equal the integer sums of confidence over the Support, Oppose
\* and Neutral ballots (Abstain adds nothing), each capped at 65535.
C5_ScoresAreConfidenceSums ==
    (DebateExists /\ debate.votes_tallied) =>
        /\ debate.support_score = Capped(ConfidenceSum(debate.votes, "Support"))
        /\ debate.oppose_score = Capped(ConfidenceSum(debate.votes, "Oppose"))
        /\ debate.neutral_score = Capped(ConfidenceSum(debate.votes, "Neutral"))

\* C6: after a successful tally the outcome is the option among Support,
\* Oppose, Neutral whose confidence sum is strictly greater than both other
\* sums, Neutral when no sum is strictly greatest, and never Abstain.
C6_OutcomeIsStrictlyGreatest ==
    (DebateExists /\ debate.votes_tallied) =>
        /\ debate.outcome = <<StrictlyGreatest(ConfidenceSum(debate.votes, "Support"),
                                               ConfidenceSum(debate.votes, "Oppose"),
                                               ConfidenceSum(debate.votes, "Neutral"))>>
        /\ debate.outcome # <<"Abstain">>

HasBallot(agent_id) ==
    \E i \in 1..Len(debate.votes) : debate.votes[i].agent_id = agent_id

\* C7: in every reachable debate state no two ballots share an agent_id and
\* every ballot has confidence <= 100; a cast_vote with confidence > 100 or for
\* an agent_id that already has a ballot fails and leaves the debate as it
\* was, with InvalidConfidence when it reaches the confidence guard (debate
\* Active) and with AlreadyVoted when it reaches the lookup (debate Active,
\* confidence <= 100).
C7_BallotsUniqueAndBounded ==
    /\ [](/\ \A i, j \in 1..Len(debate.votes) :
               i # j => debate.votes[i].agent_id # debate.votes[j].agent_id
          /\ \A i \in 1..Len(debate.votes) : debate.votes[i].confidence <= 100)
    /\ [][ \A caller \in Principals, a \in AgentIds, o \in VoteOption,
              c \in ConfidenceInputs :
             ( /\ DebateExists
               /\ last_ix' = "cast_vote"
               /\ cast_vote(caller, a, o, c, "because") ) =>
                /\ c > 100 =>
                     /\ last_err' # "Ok"
                     /\ debate' = debate
                     /\ debate.status = "Active" => last_err' = "InvalidConfidence"
                /\ HasBallot(a) =>
                     /\ last_err' # "Ok"
                     /\ debate' = debate
                     /\ (debate.status = "Active" /\ c <= 100)
                          => last_err' = "AlreadyVoted"
         ]_vars

\* A second ballot for an agent that has one, refused.
C7_Witness ==
    /\ last_ix = "cast_vote"
    /\ last_err = "AlreadyVoted"
    /\ Len(debate.votes) = 1
    /\ debate.status = "Active"

\* C8: in every reachable debate state votes_tallied implies status =
\* Completed and a populated outcome.
C8_TalliedImpliesCompleted ==
    (DebateExists /\ debate.votes_tallied) =>
        (debate.status = "Completed" /\ debate.outcome # <<>>)

\* C9: Completed is terminal: once tally_votes has set status = Completed no
\* later operation, by the authority or anyone else, changes the status or any
\* other field of the debate (close_debate is refused in a terminal state).
C9_CompletedIsTerminal ==
    [][ (DebateExists /\ debate.status = "Completed") => debate' = debate ]_vars

\* C10: Closed is terminal: once status = Closed no step changes any field of
\* the debate, so status stays Closed; every cast_vote fails with
\* DebateNotActive; every tally_votes fails, with DebateNotActive when the
\* handler is reached (caller = authority); and a repeated close_debate by the
\* authority succeeds.
C10_ClosedIsTerminal ==
    [][ (DebateExists /\ debate.status = "Closed") =>
          /\ debate' = debate
          /\ \A caller \in Principals :
               /\ \A a \in AgentIds, o \in VoteOption, c \in ConfidenceInputs :
                    (last_ix' = "cast_vote" /\ cast_vote(caller, a, o, c, "because"))
                       => last_err' = "DebateNotActive"
               /\ tally_votes(caller) =>
                    /\ last_err' # "Ok"
                    /\ caller = debate.authority => last_err' = "DebateNotActive"
               /\ (close_debate(caller) /\ caller = debate.authority)
                    => last_err' = "Ok"
      ]_vars

\* A closed debate, holding a ballot, that refused another one.
C10_Witness ==
    /\ debate.status = "Closed"
    /\ Len(debate.votes) > 0
    /\ last_ix = "cast_vote"
    /\ last_err = "DebateNotActive"

\* C11: an instruction that fails leaves every field of both records (and the
\* set of accounts) exactly as before the call, and each guard, when the call
\* reaches it, returns its own code: wrong status (InvalidSessionStatus,
\* DebateNotActive), empty VRF proof (InvalidVRFProof), wrong agent count
\* (InvalidAgentCount), confidence > 100 (InvalidConfidence), repeated
\* agent_id (AlreadyVoted), tally with no ballots (NoVotes), get_results
\* before the tally (VotesNotTallied).
C11_FailureIsAtomic ==
    [][ /\ last_err' # "Ok" =>
             (session' = session /\ debate' = debate /\ accounts' = accounts)
        /\ \A caller \in Principals :
             /\ \A seed \in VrfSeeds :
                  ( /\ last_ix' = "request_vrf"
                    /\ request_vrf(caller, seed)
                    /\ RequestVRF(caller) = "Ok"
                    /\ session.status # "Initialized" )
                  => last_err' = "InvalidSessionStatus"
             /\ \A r \in RandomNumbers, p \in VrfProofs :
                  ( /\ last_ix' = "fulfill_vrf"
                    /\ fulfill_vrf(caller, r, p)
                    /\ FulfillVRF(caller) = "Ok" )
                  => /\ session.status # "VRFRequested"
                          => last_err' = "InvalidSessionStatus"
                     /\ (session.status = "VRFRequested" /\ p = <<>>)
                          => last_err' = "InvalidVRFProof"
             /\ \A ids \in AgentLists :
                  ( /\ last_ix' = "select_agents"
                    /\ select_agents(caller, ids)
                    /\ SelectAgents(caller) = "Ok" )
                  => /\ session.status # "VRFFulfilled"
                          => last_err' = "InvalidSessionStatus"
                     /\ ( /\ session.status = "VRFFulfilled"
                          /\ Len(ids) # session.required_agents )
                          => last_err' = "InvalidAgentCount"
             /\ \A a \in AgentIds, o \in VoteOption, c \in ConfidenceInputs :
                  ( /\ last_ix' = "cast_vote"
                    /\ cast_vote(caller, a, o, c, "because")
                    /\ CastVote(caller) = "Ok" )
                  => /\ debate.status # "Active" => last_err' = "DebateNotActive"
                     /\ (debate.status = "Active" /\ c > 100)
                          => last_err' = "InvalidConfidence"
                     /\ (debate.status = "Active" /\ c <= 100 /\ HasBallot(a))
                          => last_err' = "AlreadyVoted"
             /\ ( /\ last_ix' = "tally_votes"
                  /\ tally_votes(caller)
                  /\ TallyVotes(caller) = "Ok" )
                => /\ debate.status # "Active" => last_err' = "DebateNotActive"
                   /\ (debate.status = "Active" /\ debate.votes = <<>>)
                        => last_err' = "NoVotes"
        /\ ( /\ last_ix' = "verify_selection"
             /\ verify_selection
             /\ VerifySelection = "Ok"
             /\ session.status # "AgentsSelected" )
           => last_err' = "InvalidSessionStatus"
        /\ ( /\ last_ix' = "get_results"
             /\ get_results
             /\ GetResults = "Ok"
             /\ ~debate.votes_tallied )
           => last_err' = "VotesNotTallied"
      ]_vars

\* A tally asked of an Active debate that holds no ballot, refused.
C11_Witness ==
    /\ DebateExists
    /\ debate.status = "Active"
    /\ debate.votes = <<>>
    /\ last_ix = "tally_votes"
    /\ last_err = "NoVotes"

\* C12: in every reachable debate state the ballot list holds at most 20
\* entries (cast_vote on an Active debate holding 20 ballots fails with
\* CapacityExceeded and leaves the list unchanged).
C12_AtMostTwentyBallots == Len(debate.votes) <= 20

\* C13: every existing session satisfies 1 <= required_agents <= 10
\* (initialize_session with required_agents = 0 or > 10 fails with
\* InvalidArgument and creates no record).
C13_RequiredAgentsInRange ==
    SessionExists => (1 <= session.required_agents /\ session.required_agents <= 10)

\* C14: verify_selection called in status AgentsSelected returns true exactly
\* when vrf_fulfilled holds, the length of selected_agents equals
\* required_agents, vrf_proof is non-empty and, for a diversity-required
\* session, the selected agents are pairwise distinct.
C14_VerifyChecksDiversity ==
    (last_ix = "verify_selection" /\ last_err = "Ok") =>
        last_ret = << /\ session.vrf_fulfilled
                      /\ Len(session.selected_agents) = session.required_agents
                      /\ Len(session.vrf_proof) > 0
                      /\ (session.diversity_required => Distinct(session.selected_agents)) >>

\* C15: the ballot list changes only by a successful cast_vote on an Active
\* debate, which appends exactly one ballot at the end and leaves the existing
\* ballots as they were, in their order; no other operation changes the list,
\* and a debate that is Completed or Closed does not become Active again, so
\* from then on the list never changes.
C15_BallotsAppendOnly ==
    [][ /\ debate'.votes # debate.votes =>
             /\ DebateExists
             /\ debate.status = "Active"
             /\ last_ix' = "cast_vote"
             /\ last_err' = "Ok"
             /\ Len(debate'.votes) = Len(debate.votes) + 1
             /\ SubSeq(debate'.votes, 1, Len(debate.votes)) = debate.votes
        /\ debate.status # "Active" => debate'.status # "Active"
      ]_vars

\* A second ballot was appended behind the first, and later the debate was
\* closed with both ballots in place.
C15_Witness ==
    /\ debate.status = "Closed"
    /\ Len(debate.votes) = 2
    /\ debate.votes[1].agent_id # debate.votes[2].agent_id
    /\ last_ix = "cast_vote"
    /\ last_err = "DebateNotActive"

\* C16 as stated: in every reachable session state, the states before
\* select_agents has run included, selection_timestamp >= timestamp.
C16_SelectionNotBeforeCreation ==
    SessionExists => session.selection_timestamp >= session.timestamp

\* C16 amended: once select_agents has run (status AgentsSelected or later)
\* selection_timestamp >= timestamp; before that selection_timestamp is 0.
C16_SelectionNotBeforeCreationOnceSelected ==
    SessionExists =>
        IF session.status \in {"AgentsSelected", "Completed"}
        THEN session.selection_timestamp >= session.timestamp
        ELSE session.selection_timestamp = 0

\* The agents were selected after the clock had moved on since the creation.
C16_Witness ==
    /\ SessionExists
    /\ session.status = "AgentsSelected"
    /\ session.selection_timestamp > session.timestamp

\* C17: get_results and verify_selection change no field of any record,
\* whether they succeed or fail; a call repeated with no other instruction in
\* between returns what the first returned; get_results on an existing debate
\* fails with VotesNotTallied exactly when votes_tallied is false and
\* otherwise returns the stored outcome, the three stored scores and
\* total_votes equal to the number of ballots.
C17_ReadsArePure ==
    [][ /\ (get_results \/ verify_selection) =>
             (session' = session /\ debate' = debate /\ accounts' = accounts)
        /\ (get_results /\ GetResults = "Ok") =>
             IF ~debate.votes_tallied
             THEN last_err' = "VotesNotTallied"
             ELSE /\ last_err' = "Ok"
                  /\ Len(last_ret') = 1
                  /\ <<last_ret'[1].outcome>> = debate.outcome
                  /\ last_ret'[1].support_score = debate.support_score
                  /\ last_ret'[1].oppose_score = debate.oppose_score
                  /\ last_ret'[1].neutral_score = debate.neutral_score
                  /\ last_ret'[1].total_votes = Len(debate.votes)
        /\ (last_ix = "get_results" /\ get_results) =>
             (last_err' = last_err /\ last_ret' = last_ret)
        /\ (last_ix = "verify_selection" /\ verify_selection) =>
             (last_err' = last_err /\ last_ret' = last_ret)
      ]_vars

\* get_results returned the results of a tallied debate of two ballots.
C17_Witness ==
    /\ last_ix = "get_results"
    /\ last_err = "Ok"
    /\ debate.votes_tallied
    /\ last_ret[1].total_votes = 2

\* C18: authority is written by a successful initialize_session /
\* initialize_debate, with the caller's identity, and by nothing else: once
\* the record exists no instruction, succeeding or failing, changes it.
C18_AuthorityWrittenOnce ==
    [][ /\ SessionExists => session'.authority = session.authority
        /\ DebateExists => debate'.authority = debate.authority
        /\ session'.authority # session.authority =>
             (last_ix' = "initialize_session" /\ last_err' = "Ok")
        /\ debate'.authority # debate.authority =>
             (last_ix' = "initialize_debate" /\ last_err' = "Ok")
        /\ \A caller \in Principals :
             /\ \A n \in RequiredAgentsInputs, d \in BOOLEAN :
                  (initialize_session(caller, "s1", n, d) /\ last_err' = "Ok")
                  => session'.authority = caller
             /\ (initialize_debate(caller, "d1", "topic", 1) /\ last_err' = "Ok")
                  => debate'.authority = caller
      ]_vars

\* Alice's session has been through fulfill_vrf, and an initialize_session
\* aimed at it was refused.
C18_Witness ==
    /\ SessionExists
    /\ session.authority = "alice"
    /\ session.status = "VRFFulfilled"
    /\ last_ix = "initialize_session"
    /\ last_err = "AccountAlreadyInUse"

\* C19: request_vrf succeeds only from Initialized and fulfill_vrf only from
\* VRFRequested, and the status never returns to either, so each succeeds at
\* most once and fulfill_vrf strictly after request_vrf; once request_vrf has
\* succeeded vrf_seed never changes; once fulfill_vrf has succeeded
\* vrf_fulfilled = true, random_number and the non-empty vrf_proof never
\* change.
C19_VrfWriteOnce ==
    [][ /\ \A caller \in Principals :
             /\ \A seed \in VrfSeeds :
                  (request_vrf(caller, seed) /\ last_err' = "Ok") =>
                      /\ session.status = "Initialized"
                      /\ session'.status = "VRFRequested"
                      /\ session'.vrf_seed = seed
             /\ \A r \in RandomNumbers, p \in VrfProofs :
                  (fulfill_vrf(caller, r, p) /\ last_err' = "Ok") =>
                      /\ session.status = "VRFRequested"
                      /\ session'.status = "VRFFulfilled"
                      /\ session'.vrf_fulfilled
                      /\ session'.random_number = r
                      /\ session'.vrf_proof = p
                      /\ Len(p) > 0
        /\ (SessionExists /\ session.status # "Initialized") =>
             /\ session'.status # "Initialized"
             /\ session'.vrf_seed = session.vrf_seed
        /\ (SessionExists /\ session.status \notin {"Initialized", "VRFRequested"}) =>
             /\ session'.status # "VRFRequested"
             /\ session.vrf_fulfilled /\ session'.vrf_fulfilled
             /\ Len(session.vrf_proof) > 0
             /\ session'.random_number = session.random_number
             /\ session'.vrf_proof = session.vrf_proof
      ]_vars

\* The authority tried to request again after the fulfilment and was refused;
\* the seed of the first request is still in place.
C19_Witness ==
    /\ session.status = "VRFFulfilled"
    /\ session.vrf_seed = 42
    /\ session.vrf_fulfilled
    /\ last_ix = "request_vrf"
    /\ last_err = "InvalidSessionStatus"

\* C20: no session ever has status Completed: once AgentsSelected is reached
\* the status stays AgentsSelected, a successful verify_selection included,
\* and every request_vrf, fulfill_vrf and select_agents handler invoked (the
\* call passed its Accounts struct) fails with InvalidSessionStatus.
C20_AgentsSelectedIsLast ==
    /\ [](session.status # "Completed")
    /\ [][ /\ session.status = "AgentsSelected" => session'.status = "AgentsSelected"
           /\ (verify_selection /\ last_err' = "Ok") =>
                (session.status = "AgentsSelected" /\ session' = session)
           /\ \A caller \in Principals :
                /\ \A seed \in VrfSeeds :
                     ( /\ request_vrf(caller, seed)
                       /\ RequestVRF(caller) = "Ok"
                       /\ session.status = "AgentsSelected" )
                     => last_err' = "InvalidSessionStatus"
                /\ \A r \in RandomNumbers, p \in VrfProofs :
                     ( /\ fulfill_vrf(caller, r, p)
                       /\ FulfillVRF(caller) = "Ok"
                       /\ session.status = "AgentsSelected" )
                     => last_err' = "InvalidSessionStatus"
                /\ \A ids \in AgentLists :
                     ( /\ select_agents(caller, ids)
                       /\ SelectAgents(caller) = "Ok"
                       /\ session.status = "AgentsSelected" )
                     => last_err' = "InvalidSessionStatus"
         ]_vars

\* A selection was verified as valid and the session is still AgentsSelected.
C20_Witness ==
    /\ session.status = "AgentsSelected"
    /\ last_ix = "verify_selection"
    /\ last_err = "Ok"
    /\ last_ret = <<TRUE>>
====
